---------------------------- MODULE Spec2Model ----------------------------
(***************************************************************************)
(* A model of the ray tracer: the recursive colour estimator ray_color,    *)
(* the Sphere and List intersection routines, and the Color type with its  *)
(* parallel sample reduction.                                              *)
(*                                                                         *)
(* Numbers.  An f64 is modelled as an exact rational <<n, d>> in lowest    *)
(* terms with d > 0, extended with the IEEE-754 special values             *)
(*   NaN = <<0, 0>>,  +inf = <<1, 0>>,  -inf = <<-1, 0>>.                  *)
(* Comparisons with NaN are false, x / 0 is an infinity or NaN, 0 * inf is *)
(* NaN, exactly as the hardware does it.  Signed zeros are not told apart. *)
(* Rounding is not modelled where the program fixes the order of the       *)
(* operations; it is modelled (with a short mantissa) in the one place     *)
(* where the order is left to the scheduler: the parallel reduction of     *)
(* Color::merge_samples.                                                   *)
(***************************************************************************)
EXTENDS Integers, Sequences, FiniteSets, TLC

-----------------------------------------------------------------------------
(* f64 values *)

Abs(n) == IF n < 0 THEN -n ELSE n

Sgn(n) == IF n > 0 THEN 1 ELSE IF n < 0 THEN -1 ELSE 0

RECURSIVE Gcd(_, _)
Gcd(a, b) == IF b = 0 THEN a ELSE Gcd(b, a % b)

\* The f64 n/d: lowest terms, positive denominator; d = 0 gives inf or NaN.
Norm(n, d) ==
    IF d = 0 THEN <<Sgn(n), 0>>
    ELSE LET g == Gcd(Abs(n), Abs(d))
         IN  IF d < 0 THEN <<(0 - n) \div g, (0 - d) \div g>>
                      ELSE <<n \div g, d \div g>>

F(n) == <<n, 1>>

NaN == <<0, 0>>

INFINITY == <<1, 0>>

NEG_INFINITY == <<-1, 0>>

IsNaN(x) == x = NaN

IsFinite(x) == x[2] > 0

\* x < y of f64: false when either side is NaN.
Lt(x, y) ==
    /\ ~IsNaN(x)
    /\ ~IsNaN(y)
    /\ IF x[2] = 0 /\ y[2] = 0 THEN x[1] < y[1]
       ELSE x[1] * y[2] < y[1] * x[2]

Le(x, y) == ~IsNaN(x) /\ ~IsNaN(y) /\ ~Lt(y, x)

\* x == y of f64 (PartialEq): NaN equals nothing, itself included.
Eq(x, y) == ~IsNaN(x) /\ ~IsNaN(y) /\ x = y

FNeg(x) == <<0 - x[1], x[2]>>

FAdd(x, y) ==
    IF x[2] = 0 /\ y[2] = 0
    THEN (IF x = y THEN x ELSE NaN)
    ELSE Norm(x[1] * y[2] + y[1] * x[2], x[2] * y[2])

FSub(x, y) == FAdd(x, FNeg(y))

FMul(x, y) == Norm(x[1] * y[1], x[2] * y[2])

FDiv(x, y) ==
    IF y[1] < 0 THEN Norm((0 - x[1]) * y[2], x[2] * (0 - y[1]))
                ELSE Norm(x[1] * y[2], x[2] * y[1])

\* f64::clamp(self, min, max): a NaN self is returned as it is.
Clamp(x, lo, hi) == IF Lt(x, lo) THEN lo ELSE IF Lt(hi, x) THEN hi ELSE x

\* f64::max: when one side is NaN the other side is returned.
FMax(x, y) == IF IsNaN(x) THEN y ELSE IF IsNaN(y) THEN x ELSE IF Lt(x, y) THEN y ELSE x

\* f64::signum: 1 for positive numbers and +0, -1 for negative ones, NaN for NaN.
Signum(x) == IF IsNaN(x) THEN NaN ELSE IF x[1] < 0 THEN F(-1) ELSE F(1)

IsSquare(n) == \E r \in 0..n : r * r = n

ISqrt(n) == CHOOSE r \in 0..n : r * r = n

\* The inputs of the model are chosen so that every square root taken is exact.
HasSqrt(x) == IsNaN(x) \/ x[1] < 0 \/ x[2] = 0 \/ (IsSquare(x[1]) /\ IsSquare(x[2]))

\* f64::sqrt: NaN for a negative number, exact on the squares.
Sqrt(x) ==
    IF IsNaN(x) \/ x[1] < 0 THEN NaN
    ELSE IF x[2] = 0 THEN x
    ELSE <<ISqrt(x[1]), ISqrt(x[2])>>

\* `x as u32` for an f64: truncation toward zero, NaN and negatives give 0.
\* (The cast also saturates at u32::MAX; a channel times 255.999 is far below it.)
AsU32(x) == IF IsNaN(x) \/ x[1] < 0 THEN 0 ELSE x[1] \div x[2]

\* Option<T>: None is the empty sequence, Some(x) the sequence of x alone.
None == <<>>

Some(x) == <<x>>

-----------------------------------------------------------------------------
(* Vec3 *)

Vec3New(x, y, z) == <<x, y, z>>

VAdd(v, w) == <<FAdd(v[1], w[1]), FAdd(v[2], w[2]), FAdd(v[3], w[3])>>

VSub(v, w) == <<FSub(v[1], w[1]), FSub(v[2], w[2]), FSub(v[3], w[3])>>

VScale(k, v) == <<FMul(v[1], k), FMul(v[2], k), FMul(v[3], k)>>

\* Vec3 /= rhs multiplies by the reciprocal.
VDiv(v, k) == VScale(FDiv(F(1), k), v)

Dot(v, w) == FAdd(FAdd(FMul(v[1], w[1]), FMul(v[2], w[2])), FMul(v[3], w[3]))

LengthSquared(v) == Dot(v, v)

-----------------------------------------------------------------------------
(* Color *)

ColorNew(r, g, b) ==
    [r |-> Clamp(r, F(0), F(1)), g |-> Clamp(g, F(0), F(1)), b |-> Clamp(b, F(0), F(1))]

\* Color::default(), the derived Default: all channels 0.
ColorDefault == [r |-> F(0), g |-> F(0), b |-> F(0)]

set_red(c, x) == [c EXCEPT !.r = Clamp(x, F(0), F(1))]

set_green(c, x) == [c EXCEPT !.g = Clamp(x, F(0), F(1))]

set_blue(c, x) == [c EXCEPT !.b = Clamp(x, F(0), F(1))]

mul_assign(c, rhs) ==
    LET c1 == set_red(c, FMul(c.r, rhs))
        c2 == set_green(c1, FMul(c1.g, rhs))
    IN  set_blue(c2, FMul(c2.b, rhs))

div_assign(c, rhs) == mul_assign(c, FDiv(F(1), rhs))

interpolate(c, other, t0) ==
    LET t == Clamp(t0, F(0), F(1))
    IN  ColorNew(FAdd(FMul(FSub(F(1), t), c.r), FMul(t, other.r)),
                 FAdd(FMul(FSub(F(1), t), c.g), FMul(t, other.g)),
                 FAdd(FMul(FSub(F(1), t), c.b), FMul(t, other.b)))

attenuate(c, rhs) == ColorNew(FMul(c.r, rhs.r), FMul(c.g, rhs.g), FMul(c.b, rhs.b))

\* The factor of the Display implementation, 255.999.
ChannelScale == <<255999, 1000>>

\* Display with the factor 256 in place of 255.999.
DisplayTimes256(c) ==
    <<AsU32(FMul(c.r, F(256))), AsU32(FMul(c.g, F(256))), AsU32(FMul(c.b, F(256)))>>

\* The three integers Display writes for a colour.
Display(c) ==
    <<AsU32(FMul(c.r, ChannelScale)), AsU32(FMul(c.g, ChannelScale)),
      AsU32(FMul(c.b, ChannelScale))>>

\* Color == Color (derived PartialEq): channel-wise f64 equality.
ColorEq(c, d) == Eq(c.r, d.r) /\ Eq(c.g, d.g) /\ Eq(c.b, d.b)

\* Vec3::from(Color)
VecFromColor(c) == <<c.r, c.g, c.b>>

-----------------------------------------------------------------------------
(* Ray, Sphere, List, Metal *)

RayNew(origin, direction) == [origin |-> origin, direction |-> direction]

\* Ray::at
At(r, time) == VAdd(r.origin, VScale(time, r.direction))

\* An interval without its end points.
ContainsExclusive(v, t) == Lt(v[1], t) /\ Lt(t, v[2])

\* RangeInclusive::contains
Contains(v, t) == Le(v[1], t) /\ Le(t, v[2])

\* Sphere::new with the radius stored as it is given.
SphereNewUnclamped(center, radius, material) ==
    [center |-> center, radius |-> radius, material |-> material]

\* Sphere::new
SphereNew(center, radius, material) ==
    [center |-> center, radius |-> FMax(radius, F(0)), material |-> material]

\* Sphere::normal
Normal(s, p) == VDiv(VSub(p, s.center), s.radius)

RayHit(s, r, t) ==
    [p |-> At(r, t), normal |-> Normal(s, At(r, t)), t |-> t, material |-> s.material]

\* The quarter-discriminant of Sphere::hit_by.
QuarterDiscriminant(s, r) ==
    LET co == VSub(r.origin, s.center)
        a == LengthSquared(r.direction)
        half_b == Dot(co, r.direction)
        c == FSub(LengthSquared(co), FMul(s.radius, s.radius))
    IN  FSub(FMul(half_b, half_b), FMul(a, c))

\* Sphere::hit_by with the far root tried first.
SphereHitFarFirst(s, r, v) ==
    LET co == VSub(r.origin, s.center)
        a == LengthSquared(r.direction)
        half_b == Dot(co, r.direction)
        qd == QuarterDiscriminant(s, r)
        t0 == FDiv(FSub(FNeg(half_b), Sqrt(qd)), a)
        t1 == FAdd(t0, FDiv(FMul(F(2), Sqrt(qd)), a))
    IN  IF Lt(qd, F(0)) THEN None
        ELSE IF Contains(v, t1) THEN Some(RayHit(s, r, t1))
        ELSE IF Contains(v, t0) THEN Some(RayHit(s, r, t0))
        ELSE None

\* <Sphere as Hittable>::hit_by
SphereHitBy(s, r, v) ==
    LET co == VSub(r.origin, s.center)
        a == LengthSquared(r.direction)
        half_b == Dot(co, r.direction)
        quarter_discriminant == QuarterDiscriminant(s, r)
        half_sdiscriminant == Sqrt(quarter_discriminant)
        t0 == FDiv(FSub(FNeg(half_b), half_sdiscriminant), a)
        t1 == FAdd(t0, FDiv(FMul(F(2), half_sdiscriminant), a))
    IN  IF Lt(quarter_discriminant, F(0)) THEN None
        ELSE IF Contains(v, t0) THEN Some(RayHit(s, r, t0))
        ELSE IF Contains(v, t1) THEN Some(RayHit(s, r, t1))
        ELSE None

\* The closure of List::hit_by with the interval left as it was given.
ListStepNoNarrowing(acc, object, r, v) ==
    IF acc = None THEN SphereHitBy(object, r, v)
    ELSE LET h == SphereHitBy(object, r, v)
         IN  IF h # None THEN h ELSE acc

\* The closure List::hit_by folds with: one object against the best hit so far.
ListStep(acc, object, r, v) ==
    IF acc = None THEN SphereHitBy(object, r, v)
    ELSE LET h == SphereHitBy(object, r, <<v[1], acc[1].t>>)
         IN  IF h # None THEN h ELSE acc

RECURSIVE ListFold(_, _, _, _)
ListFold(objects, acc, r, v) ==
    IF objects = <<>> THEN acc
    ELSE ListFold(Tail(objects), ListStep(acc, Head(objects), r, v), r, v)

\* <List as Hittable>::hit_by
ListHitBy(objects, r, v) == ListFold(objects, None, r, v)

\* Metal::new
MetalNew(albedo, fuzziness) ==
    [albedo |-> albedo, fuzziness |-> Clamp(fuzziness, F(0), F(1))]

-----------------------------------------------------------------------------
(* f64 addition with rounding, as the parallel reduction performs it *)

\* Significant bits kept by an addition (53 in an f64).
MantissaBits == 3

RECURSIVE BitLen(_)
BitLen(n) == IF n = 0 THEN 0 ELSE 1 + BitLen(n \div 2)

\* Round to nearest, ties to even, to MantissaBits significant bits.
RoundNat(n) ==
    IF BitLen(n) <= MantissaBits THEN n
    ELSE LET e == BitLen(n) - MantissaBits
             q == n \div (2 ^ e)
             r == n % (2 ^ e)
             h == 2 ^ (e - 1)
         IN  (IF r > h \/ (r = h /\ q % 2 = 1) THEN q + 1 ELSE q) * (2 ^ e)

\* The values added in the model are dyadic (denominator a power of two), so
\* rounding the numerator rounds the value.
Round(x) == IF IsFinite(x) THEN Norm(Sgn(x[1]) * RoundNat(Abs(x[1])), x[2]) ELSE x

RAdd(x, y) == Round(FAdd(x, y))

-----------------------------------------------------------------------------
(* State *)

VARIABLES
    color,      \* the Color value the Color operations act on
    saved,      \* a second Color, the `other` / `rhs` argument of the binary operations
    prev,       \* `color` before the last operation
    op,         \* the last operation called and its scalar arguments
    text,       \* the three integers last written by Display
    nops,       \* number of operations called so far
    samples,    \* merge_samples: the sample colours, in iteration order
    parts,      \* merge_samples: the (count, sum) pairs not yet combined, in order
    rpc,        \* merge_samples: "idle" or "reducing"
    idents,     \* merge_samples: number of identity pairs the reduction has created
    sphere,     \* the Sphere last constructed (an Option)
    metal,      \* the Metal last constructed (an Option)
    world,      \* the objects of the List, in push order
    ray,        \* the ray of the last hit_by call (an Option)
    valid_t,    \* the interval of the last hit_by call
    hit,        \* what the last hit_by call returned (an Option<RayHit>)
    stack,      \* ray_color: the frames of the nested calls, outermost first
    ret,        \* ray_color: the Color the last finished call returned (an Option)
    ev,         \* ray_color: what the last step did
    top,        \* ray_color: max_depth of the outermost call
    rcalls,     \* ray_color: calls of ray_color made for the outermost call, itself included
    hcalls,     \* ray_color: calls of world.hit_by made for the outermost call
    scalls,     \* ray_color: calls of Material::scatter made for the outermost call
    rdepth,     \* ray_color: max_depth of the call that returned `ret`
    scat,       \* Material::scatter: the last call (material, ray, hit, random draws)
    srec,       \* Material::scatter: what the last call returned (an Option<ScatterRecord>)
    sdiel,      \* Dielectric::scatter: the locals of the last call and the branch it took
    angle,      \* the Angle the Angle operations act on
    aprev,      \* `angle` before the last operation
    acall,      \* the last Angle operation called and its argument
    aout,       \* what unwrap_degrees / unwrap_radians last returned, or that it panicked
    anops,      \* number of Angle operations called so far
    cam,        \* the Camera, once constructed
    cray,       \* the last call of Camera::get_ray: its arguments, the lens sample and the Ray
    ipc,        \* where write_image stands
    idim,       \* its arguments <<width, height>>
    isamples,   \* the colours ray_color returns for the samples of a pixel
    ipos,       \* <<k, i>>: the k-th scanline of the loop and the column i
    out,        \* the lines written to `out`
    twin,       \* the lines a second run of the same render writes, its reductions sequential
    errout,     \* the lines written to standard error
    iret,       \* what write_image returned: "none" while it runs, "ok" or "err"
    order,      \* <<j, i>> of the pixels computed, in the order of computation
    rowwrites,  \* writes to `out` attempted since the scanline began
    attempts,   \* writes attempted on either sink
    ifail,      \* the sink whose write failed: "none", "out" or "stderr"
    iuv         \* <<u, v>> handed to Camera::get_ray for a sample of the last pixel

colorVars == <<color, saved, prev, op, text, nops>>

mergeVars == <<samples, parts, rpc, idents>>

geomVars == <<sphere, metal, world, ray, valid_t, hit>>

rayVars == <<stack, ret, ev, top, rcalls, hcalls, scalls, rdepth>>

scatterVars == <<scat, srec, sdiel>>

\* The state of the parts of the program that follow the four above.
angleVars == <<angle, aprev, acall, aout, anops>>

cameraVars == <<cam, cray>>

imageVars ==
    <<ipc, idim, isamples, ipos, out, twin, errout, iret, order, rowwrites, attempts, ifail, iuv>>

moreVars == <<scatterVars, angleVars, cameraVars, imageVars>>

vars == <<colorVars, mergeVars, geomVars, rayVars, moreVars>>

\* What the operations on a Color leave alone.
notColor == <<mergeVars, geomVars, rayVars, moreVars>>

\* What merge_samples leaves alone.
notMerge == <<geomVars, rayVars, moreVars>>

\* What the geometry operations leave alone.
notGeom == <<color, saved, text, mergeVars, rayVars, moreVars>>

\* What ray_color leaves alone.
notRay == <<colorVars, mergeVars, geomVars, moreVars>>

-----------------------------------------------------------------------------
(* Bounds and input sets *)

MaxOps == 2

MaxSamples == 3

MaxIdentities == 1

Half == <<1, 2>>

Eighth == <<1, 8>>

\* f64 arguments: below, at and inside the ends of [0, 1], and above.
ScalarSeq == <<F(-1), F(0), Half, F(1), F(2)>>

ScalarIn == {ScalarSeq[i] : i \in 1..Len(ScalarSeq)}

Wrap(i) == ((i - 1) % Len(ScalarSeq)) + 1

\* Argument triples: every f64 of ScalarIn in every position.
TripleIn ==
    {<<x, x, x>> : x \in ScalarIn}
        \cup {<<ScalarSeq[i], ScalarSeq[Wrap(i + 1)], ScalarSeq[Wrap(i + 2)]>> :
                 i \in 1..Len(ScalarSeq)}

\* Ranges handed to Color::random: the one main.rs uses and one wider than [0, 1].
RangeIn == {<<Half, F(1)>>, <<F(-1), F(2)>>}

SavedIn == {ColorNew(F(1), F(1), F(1)), ColorNew(Half, F(0), F(1))}

\* Sample colours of a pixel.
SampleIn == {ColorNew(F(1), F(1), F(1)), ColorNew(Eighth, Eighth, Eighth),
             ColorNew(F(0), Half, F(1))}

SeqsUpTo(S, n) == UNION {[1..k -> S] : k \in 0..n}

NoOp == [name |-> "none", x |-> NaN, y |-> NaN, z |-> NaN]

Op1(name, x) == [name |-> name, x |-> x, y |-> NaN, z |-> NaN]

Op3(name, x, y, z) == [name |-> name, x |-> x, y |-> y, z |-> z]

InitColor ==
    /\ color = ColorDefault
    /\ prev = ColorDefault
    /\ op = NoOp
    /\ text = <<>>
    /\ nops = 0

InitMerge ==
    /\ samples = <<>>
    /\ parts = <<>>
    /\ rpc = "idle"
    /\ idents = 0

InitGeom ==
    /\ sphere = None
    /\ metal = None
    /\ world = <<>>
    /\ ray = None
    /\ valid_t = <<F(0), F(0)>>
    /\ hit = None

InitRay ==
    /\ stack = <<>>
    /\ ret = None
    /\ ev = "none"
    /\ top = 0
    /\ rcalls = 0
    /\ hcalls = 0
    /\ scalls = 0
    /\ rdepth = 0

NoScatter ==
    [kind |-> "none", material |-> <<>>, ray |-> <<>>, hit_record |-> <<>>,
     rnd |-> <<>>, draw |-> NaN]

NoLocals == [eta_from |-> NaN, eta_to |-> NaN, r0 |-> NaN, reflectance |-> NaN,
             cannot_refract |-> FALSE, branch |-> "none"]

InitScatter ==
    /\ scat = NoScatter
    /\ srec = None
    /\ sdiel = NoLocals

\* std::f64::consts::PI: an f64, so a rational near pi.
PI == <<355, 113>>

\* Angle::Degrees(v)
Degrees(v) == [unit |-> "degrees", value |-> v]

\* Angle::Radians(v)
Radians(v) == [unit |-> "radians", value |-> v]

NoAngleCall == [name |-> "none", rhs |-> Radians(NaN), k |-> NaN, calls |-> 0]

NoOutput == [panicked |-> FALSE, value |-> NaN]

InitAngle ==
    /\ angle = Radians(F(0))
    /\ aprev = Radians(F(0))
    /\ acall = NoAngleCall
    /\ aout = NoOutput
    /\ anops = 0

InitCamera ==
    /\ cam = None
    /\ cray = None

InitImage ==
    /\ ipc = "idle"
    /\ idim = <<0, 0>>
    /\ isamples = <<>>
    /\ ipos = <<0, 0>>
    /\ out = <<>>
    /\ twin = <<>>
    /\ errout = <<>>
    /\ iret = "none"
    /\ order = <<>>
    /\ rowwrites = 0
    /\ attempts = 0
    /\ ifail = "none"
    /\ iuv = None

InitMore ==
    /\ InitScatter
    /\ InitAngle
    /\ InitCamera
    /\ InitImage

-----------------------------------------------------------------------------
(* Color operations *)

\* The bookkeeping common to every operation.
Record(o) ==
    /\ nops < MaxOps
    /\ nops' = nops + 1
    /\ prev' = color
    /\ op' = o

New ==
    \E a \in TripleIn :
        /\ Record(Op3("new", a[1], a[2], a[3]))
        /\ color' = ColorNew(a[1], a[2], a[3])
        /\ UNCHANGED <<saved, text, notColor>>

SetRed ==
    \E x \in ScalarIn :
        /\ Record(Op1("set_red", x))
        /\ color' = set_red(color, x)
        /\ UNCHANGED <<saved, text, notColor>>

SetGreen ==
    \E x \in ScalarIn :
        /\ Record(Op1("set_green", x))
        /\ color' = set_green(color, x)
        /\ UNCHANGED <<saved, text, notColor>>

SetBlue ==
    \E x \in ScalarIn :
        /\ Record(Op1("set_blue", x))
        /\ color' = set_blue(color, x)
        /\ UNCHANGED <<saved, text, notColor>>

\* color * rhs, rhs * color, color *= rhs
MulScalar ==
    \E x \in ScalarIn :
        /\ Record(Op1("mul", x))
        /\ color' = mul_assign(color, x)
        /\ UNCHANGED <<saved, text, notColor>>

\* color / rhs, color /= rhs
DivScalar ==
    \E x \in ScalarIn :
        /\ Record(Op1("div", x))
        /\ color' = div_assign(color, x)
        /\ UNCHANGED <<saved, text, notColor>>

\* color.interpolate(&saved, t)
Interpolate ==
    \E t \in ScalarIn \cup {INFINITY} :
        /\ Record(Op1("interpolate", t))
        /\ color' = interpolate(color, saved, t)
        /\ UNCHANGED <<saved, text, notColor>>

\* color.attenuate(&saved)
Attenuate ==
    /\ Record(Op1("attenuate", NaN))
    /\ color' = attenuate(color, saved)
    /\ UNCHANGED <<saved, text, notColor>>

\* Color::random(lo..hi): three draws from [lo, hi) handed to Color::new.
Random ==
    \E rg \in RangeIn, a \in TripleIn :
        /\ \A i \in 1..3 : Le(rg[1], a[i]) /\ Lt(a[i], rg[2])
        /\ Record(Op3("random", a[1], a[2], a[3]))
        /\ color' = ColorNew(a[1], a[2], a[3])
        /\ UNCHANGED <<saved, text, notColor>>

\* write!(f, "{color}")
Show ==
    /\ Record(Op1("show", NaN))
    /\ text' = Display(color)
    /\ UNCHANGED <<color, saved, notColor>>

NextColor ==
    \/ New
    \/ SetRed
    \/ SetGreen
    \/ SetBlue
    \/ MulScalar
    \/ DivScalar
    \/ Interpolate
    \/ Attenuate
    \/ Random
    \/ Show

InitColorSpec ==
    /\ InitColor
    /\ saved \in SavedIn
    /\ InitMerge
    /\ InitGeom
    /\ InitRay
    /\ InitMore

SpecColor == InitColorSpec /\ [][NextColor]_vars

-----------------------------------------------------------------------------
(* Color::merge_samples: a rayon map + reduce, then the division *)

\* The identity of the reduction, Default::default() of (f64, Vec3).
ReduceIdentity == <<F(0), <<F(0), F(0), F(0)>>>>

\* The closure |(c1, s1), (c2, s2)| (c1 + c2, s1 + s2).
ReduceOp(p, q) ==
    <<RAdd(p[1], q[1]),
      <<RAdd(p[2][1], q[2][1]), RAdd(p[2][2], q[2][2]), RAdd(p[2][3], q[2][3])>>>>

\* The closure |sample| (1., Vec3::from(sample)).
MapSample(c) == <<F(1), VecFromColor(c)>>

\* Self { r: sum.x() / num_samples, ... }: no clamp.
MeanOf(p) == [r |-> FDiv(p[2][1], p[1]), g |-> FDiv(p[2][2], p[1]), b |-> FDiv(p[2][3], p[1])]

\* merge_samples is called on a parallel iterator over the samples.
MergeStart ==
    /\ rpc = "idle"
    /\ \E ss \in SeqsUpTo(SampleIn, MaxSamples) :
          /\ samples' = ss
          /\ parts' = [i \in 1..Len(ss) |-> MapSample(ss[i])]
    /\ Record(Op1("merge_samples", NaN))
    /\ rpc' = "reducing"
    /\ idents' = 0
    /\ UNCHANGED <<color, saved, text, notMerge>>

\* A sequential leaf of the reduction starts from identity().
Identity ==
    /\ rpc = "reducing"
    /\ idents < MaxIdentities
    /\ \E i \in 0..Len(parts) :
          parts' = SubSeq(parts, 1, i) \o <<ReduceIdentity>> \o SubSeq(parts, i + 1, Len(parts))
    /\ idents' = idents + 1
    /\ UNCHANGED <<colorVars, samples, rpc, notMerge>>

\* Two neighbouring partial results are combined, left operand first.
Combine ==
    /\ rpc = "reducing"
    /\ \E i \in 1..(Len(parts) - 1) :
          parts' = SubSeq(parts, 1, i - 1) \o <<ReduceOp(parts[i], parts[i + 1])>>
                       \o SubSeq(parts, i + 2, Len(parts))
    /\ UNCHANGED <<colorVars, samples, rpc, idents, notMerge>>

\* The reduction has one result left: divide and return.
MergeFinish ==
    /\ rpc = "reducing"
    /\ Len(parts) = 1
    /\ idents > 0
    /\ color' = MeanOf(parts[1])
    /\ parts' = <<>>
    /\ rpc' = "idle"
    /\ UNCHANGED <<saved, prev, op, text, nops, samples, idents, notMerge>>

NextMerge ==
    \/ MergeStart
    \/ Identity
    \/ Combine
    \/ MergeFinish

InitMergeSpec ==
    /\ InitColor
    /\ saved = ColorDefault
    /\ InitMerge
    /\ InitGeom
    /\ InitRay
    /\ InitMore

SpecMerge == InitMergeSpec /\ [][NextMerge]_vars

-----------------------------------------------------------------------------
(* Constructors and intersection calls *)

P3(x, y, z) == <<F(x), F(y), F(z)>>

CenterIn == {P3(0, 0, 0), P3(0, 3, 0), P3(4, 0, 0)}

RadiusIn == {F(-1), F(0), F(1), F(2), F(5)}

MaterialIn == {"lambertian", "metal"}

\* Rays: along each axis toward the origin from distance 3 or 6, from inside,
\* with a direction that is not a unit vector, with no direction, and sideways.
RayIn ==
    {RayNew(P3(-6, 0, 0), P3(1, 0, 0)), RayNew(P3(-3, 0, 0), P3(1, 0, 0)),
     RayNew(P3(0, 0, 0), P3(1, 0, 0)), RayNew(P3(6, 0, 0), P3(-1, 0, 0)),
     RayNew(P3(0, -3, 0), P3(0, 1, 0)), RayNew(P3(0, 0, -3), P3(0, 0, 1)),
     RayNew(P3(-6, 0, 0), P3(2, 0, 0)), RayNew(P3(-6, 0, 0), P3(0, 0, 0)),
     RayNew(P3(-6, 0, 0), P3(0, 1, 0))}

\* Intervals: the one ray_color uses, and bounded ones whose ends are roots.
ValidIn ==
    {<<<<1, 1000>>, INFINITY>>, <<F(0), F(2)>>, <<F(3), F(8)>>, <<F(4), INFINITY>>,
     <<F(5), F(5)>>}

\* The spheres pushed to the List: two concentric ones and one that overlaps both.
PushIn ==
    {<<P3(0, 0, 0), F(1), "lambertian">>, <<P3(0, 0, 0), F(2), "metal">>,
     <<P3(0, 3, 0), F(5), "lambertian">>}

MaxObjects == 3

\* Sphere::new(center, radius, material)
NewSphere ==
    \E c \in CenterIn, rad \in RadiusIn, m \in MaterialIn :
        /\ Record(Op1("sphere_new", rad))
        /\ sphere' = Some(SphereNew(c, rad, m))
        /\ ray' = None
        /\ hit' = None
        /\ UNCHANGED <<metal, world, valid_t, notGeom>>

\* Metal::new(albedo, fuzziness)
NewMetal ==
    \E a \in SavedIn, f \in ScalarIn :
        /\ Record(Op1("metal_new", f))
        /\ metal' = Some(MetalNew(a, f))
        /\ UNCHANGED <<sphere, world, ray, valid_t, hit, notGeom>>

\* sphere.hit_by(&r, v), one call per sphere constructed: hit_by takes &self,
\* so a call has no effect on the next one.
HitSphere ==
    /\ sphere # None
    /\ ray = None
    /\ \E r \in RayIn, v \in ValidIn :
          /\ HasSqrt(QuarterDiscriminant(sphere[1], r))
          /\ ray' = Some(r)
          /\ valid_t' = v
          /\ hit' = SphereHitBy(sphere[1], r, v)
    /\ op' = Op1("sphere_hit_by", NaN)
    /\ UNCHANGED <<sphere, metal, world, prev, nops, notGeom>>

\* world.push(Arc::new(Sphere::new(center, radius, material)))
Push ==
    /\ Len(world) < MaxObjects
    /\ \E a \in PushIn : world' = Append(world, SphereNew(a[1], a[2], a[3]))
    /\ op' = Op1("push", NaN)
    /\ ray' = None
    /\ hit' = None
    /\ UNCHANGED <<sphere, metal, valid_t, prev, nops, notGeom>>

\* world.clear()
Clear ==
    /\ world # <<>>
    /\ world' = <<>>
    /\ op' = Op1("clear", NaN)
    /\ ray' = None
    /\ hit' = None
    /\ UNCHANGED <<sphere, metal, valid_t, prev, nops, notGeom>>

\* world.hit_by(&r, v), one call per state of the list.
HitList ==
    /\ ray = None
    /\ \E r \in RayIn, v \in ValidIn :
          /\ \A i \in 1..Len(world) : HasSqrt(QuarterDiscriminant(world[i], r))
          /\ ray' = Some(r)
          /\ valid_t' = v
          /\ hit' = ListHitBy(world, r, v)
    /\ op' = Op1("list_hit_by", NaN)
    /\ UNCHANGED <<sphere, metal, world, prev, nops, notGeom>>

InitGeomSpec ==
    /\ InitColor
    /\ saved = ColorDefault
    /\ InitMerge
    /\ InitGeom
    /\ InitRay
    /\ InitMore

NextConfig ==
    \/ New
    \/ SetRed
    \/ SetGreen
    \/ SetBlue
    \/ NewSphere
    \/ NewMetal

SpecConfig == InitGeomSpec /\ [][NextConfig]_vars

NextSphere ==
    \/ NewSphere
    \/ HitSphere

SpecSphere == InitGeomSpec /\ [][NextSphere]_vars

NextList ==
    \/ Push
    \/ Clear
    \/ HitList

SpecList == InitGeomSpec /\ [][NextList]_vars

-----------------------------------------------------------------------------
(* ray_color *)

MaxDepth == 3

\* The y of the normalized direction of a ray that hits nothing.
YIn == {F(-1), F(0), F(1)}

\* Attenuations of the scatter records: albedos of the scenes of main.rs.
AlbedoIn == {ColorNew(Half, Half, Half), ColorNew(<<4, 5>>, <<3, 5>>, <<1, 5>>)}

\* The background: white blended into (0.5, 0.7, 1.0) by t = 0.5 * (y + 1).
SkyColor(y) ==
    interpolate(ColorNew(F(1), F(1), F(1)), ColorNew(Half, <<7, 10>>, F(1)),
                FMul(Half, FAdd(y, F(1))))

\* The recursion made with the depth it was given.
SameDepth(max_depth) == max_depth

\* The depth ray_color hands to its recursive call.
NextDepth(max_depth) == max_depth - 1

\* The recursive result returned as it is.
Unattenuated(c, attenuation) == c

\* What the closure over the scatter record returns for the recursive result c.
Scattered(c, attenuation) == attenuate(c, attenuation)

Frame(d) == [max_depth |-> d, waiting |-> FALSE, attenuation |-> ColorDefault]

TopFrame == stack[Len(stack)]

Pop == SubSeq(stack, 1, Len(stack) - 1)

\* The innermost call is executing its body.
Running == stack # <<>> /\ ~TopFrame.waiting /\ ret = None

\* The driver calls ray_color(ray, world, d).
Call ==
    /\ stack = <<>>
    /\ \E d \in 0..MaxDepth :
          /\ stack' = <<Frame(d)>>
          /\ top' = d
    /\ ret' = None
    /\ ev' = "called"
    /\ rcalls' = 1
    /\ hcalls' = 0
    /\ scalls' = 0
    /\ rdepth' = 0
    /\ UNCHANGED notRay

\* max_depth == 0: return Color::new(0., 0., 0.)
Exhausted ==
    /\ Running
    /\ TopFrame.max_depth = 0
    /\ ret' = Some(ColorNew(F(0), F(0), F(0)))
    /\ rdepth' = TopFrame.max_depth
    /\ stack' = Pop
    /\ ev' = "exhausted"
    /\ UNCHANGED <<top, rcalls, hcalls, scalls, notRay>>

\* world.hit_by returns None: the background colour.
Miss ==
    /\ Running
    /\ TopFrame.max_depth # 0
    /\ \E y \in YIn : ret' = Some(SkyColor(y))
    /\ rdepth' = TopFrame.max_depth
    /\ stack' = Pop
    /\ hcalls' = hcalls + 1
    /\ ev' = "missed"
    /\ UNCHANGED <<top, rcalls, scalls, notRay>>

\* world.hit_by returns a hit whose material scatters nothing: unwrap_or_default.
Absorbed ==
    /\ Running
    /\ TopFrame.max_depth # 0
    /\ ret' = Some(ColorDefault)
    /\ rdepth' = TopFrame.max_depth
    /\ stack' = Pop
    /\ hcalls' = hcalls + 1
    /\ scalls' = scalls + 1
    /\ ev' = "absorbed"
    /\ UNCHANGED <<top, rcalls, notRay>>

\* world.hit_by returns a hit whose material scatters: the recursive call.
Scatter ==
    /\ Running
    /\ TopFrame.max_depth # 0
    /\ \E a \in AlbedoIn :
          stack' = Append([stack EXCEPT ![Len(stack)] =
                              [@ EXCEPT !.waiting = TRUE, !.attenuation = a]],
                          Frame(NextDepth(TopFrame.max_depth)))
    /\ hcalls' = hcalls + 1
    /\ scalls' = scalls + 1
    /\ rcalls' = rcalls + 1
    /\ ev' = "scattered"
    /\ UNCHANGED <<ret, top, rdepth, notRay>>

\* The recursive call has returned: attenuate its result and return.
Resume ==
    /\ stack # <<>>
    /\ TopFrame.waiting
    /\ ret # None
    /\ ret' = Some(Scattered(ret[1], TopFrame.attenuation))
    /\ rdepth' = TopFrame.max_depth
    /\ stack' = Pop
    /\ ev' = "attenuated"
    /\ UNCHANGED <<top, rcalls, hcalls, scalls, notRay>>

InitRaySpec ==
    /\ InitColor
    /\ saved = ColorDefault
    /\ InitMerge
    /\ InitGeom
    /\ InitRay
    /\ InitMore

NextRay ==
    \/ Call
    \/ Exhausted
    \/ Miss
    \/ Absorbed
    \/ Scatter
    \/ Resume

\* A call that has started keeps executing: weak fairness of the steps that
\* return.  Miss and Scatter need none of their own: wherever either is
\* enabled Absorbed is enabled too, so a running call cannot stall.
SpecRay ==
    /\ InitRaySpec
    /\ [][NextRay]_vars
    /\ WF_vars(Exhausted)
    /\ WF_vars(Absorbed)
    /\ WF_vars(Resume)

-----------------------------------------------------------------------------
(* Claims about Color *)

InUnit(x) == Le(F(0), x) /\ Le(x, F(1))

\* C6: every channel of every Color lies in [0, 1] after any sequence of the
\* Color operations.
C6_ChannelsInUnitInterval == InUnit(color.r) /\ InUnit(color.g) /\ InUnit(color.b)

\* C8: a.interpolate(b, 0) == a, a.interpolate(b, 1) == b, and for t outside
\* [0, 1] the result equals that for the clamped t: a for t <= 0, b for t >= 1.
C8_InterpolateEnds ==
    op.name = "interpolate" =>
        /\ Le(op.x, F(0)) => ColorEq(color, prev)
        /\ Le(F(1), op.x) => ColorEq(color, saved)
        /\ (Lt(op.x, F(0)) \/ Lt(F(1), op.x)) =>
               ColorEq(color, interpolate(prev, saved, Clamp(op.x, F(0), F(1))))

\* floor(c * 255.999) in integer arithmetic.
FloorScaled(c) == (c[1] * 255999) \div (c[2] * 1000)

ChannelWritten(c, n) ==
    InUnit(c) =>
        /\ n = FloorScaled(c)
        /\ n \in 0..255
        /\ c = F(0) => n = 0
        /\ c = F(1) => n = 255

\* C9: Display writes floor(c * 255.999) for each channel c in [0, 1]: an
\* integer in 0..255, 0 for channel 0 and 255 (never 256) for channel 1.
C9_DisplayFloor ==
    op.name = "show" =>
        /\ ChannelWritten(color.r, text[1])
        /\ ChannelWritten(color.g, text[2])
        /\ ChannelWritten(color.b, text[3])

C9_Witness ==
    /\ op.name = "show"
    /\ color = ColorNew(F(0), Half, F(1))
    /\ text = <<0, 127, 255>>

RECURSIVE FoldSamples(_, _)
\* The samples reduced one after the other, in iteration order.
FoldSamples(ss, acc) ==
    IF ss = <<>> THEN acc ELSE FoldSamples(Tail(ss), ReduceOp(acc, MapSample(Head(ss))))

\* C10: for a non-empty collection of samples merge_samples returns the
\* per-channel mean, the same whatever the order and grouping in which the
\* parallel reduction combined the (count, sum) pairs.
C10_MeanWhateverTheGrouping ==
    (op.name = "merge_samples" /\ rpc = "idle" /\ Len(samples) > 0) =>
        color = MeanOf(FoldSamples(samples, ReduceIdentity))

-----------------------------------------------------------------------------
(* Claims about construction *)

\* x <= 0 gives 0, x >= 1 gives 1, x inside [0, 1] is kept.
Clamped01(x, y) ==
    /\ Le(x, F(0)) => y = F(0)
    /\ Le(F(1), x) => y = F(1)
    /\ (Le(F(0), x) /\ Le(x, F(1))) => y = x

\* C7: out-of-range configuration is clamped at construction: Sphere::new stores
\* max(radius, 0), Metal::new stores the fuzziness clamped to [0, 1], Color::new
\* and the three setters clamp the channel they are given to [0, 1].
C7_ClampedAtConstruction ==
    /\ op.name = "sphere_new" =>
           sphere[1].radius = (IF Lt(op.x, F(0)) THEN F(0) ELSE op.x)
    /\ op.name = "metal_new" => Clamped01(op.x, metal[1].fuzziness)
    /\ op.name = "new" =>
           /\ Clamped01(op.x, color.r)
           /\ Clamped01(op.y, color.g)
           /\ Clamped01(op.z, color.b)
    /\ op.name = "set_red" =>
           Clamped01(op.x, color.r) /\ color.g = prev.g /\ color.b = prev.b
    /\ op.name = "set_green" =>
           Clamped01(op.x, color.g) /\ color.r = prev.r /\ color.b = prev.b
    /\ op.name = "set_blue" =>
           Clamped01(op.x, color.b) /\ color.r = prev.r /\ color.g = prev.g

C7_Witness ==
    /\ op.name = "sphere_new"
    /\ op.x = F(-1)
    /\ sphere[1].radius = F(0)
    /\ metal # None
    /\ metal[1].fuzziness = F(1)

-----------------------------------------------------------------------------
(* Claims about intersection *)

\* The roots of |ray.at(t) - center|^2 = radius^2, smaller one first.
Roots(s, r) ==
    LET a == LengthSquared(r.direction)
        half_b == Dot(VSub(r.origin, s.center), r.direction)
        root == Sqrt(QuarterDiscriminant(s, r))
    IN  <<FDiv(FSub(FNeg(half_b), root), a), FDiv(FAdd(FNeg(half_b), root), a)>>

Inside(v, t) == Le(v[1], t) /\ Le(t, v[2])

\* p is on the surface of s.
OnSphere(s, p) == LengthSquared(VSub(p, s.center)) = FMul(s.radius, s.radius)

\* C4: with a non-negative quarter-discriminant Sphere::hit_by returns the
\* smaller root t0 if it is in the interval (ends included), else the larger
\* root t1 if that is, else nothing; with a negative one it returns nothing.
\* A returned t is inside the interval, and the hit is the ray's point at t.
C4_SphereHitRoots ==
    op.name = "sphere_hit_by" =>
        LET s == sphere[1]
            r == ray[1]
            t0 == Roots(s, r)[1]
            t1 == Roots(s, r)[2]
        IN  /\ Lt(QuarterDiscriminant(s, r), F(0)) => hit = None
            /\ ~Lt(QuarterDiscriminant(s, r), F(0)) =>
                   IF Inside(valid_t, t0) THEN hit # None /\ hit[1].t = t0
                   ELSE IF Inside(valid_t, t1) THEN hit # None /\ hit[1].t = t1
                   ELSE hit = None
            /\ hit # None =>
                   /\ Inside(valid_t, hit[1].t)
                   /\ hit[1].p = At(r, hit[1].t)
                   /\ OnSphere(s, hit[1].p)
                   /\ hit[1].material = s.material

\* The larger root is returned because the smaller one is outside the interval.
C4_Witness ==
    /\ op.name = "sphere_hit_by"
    /\ hit # None
    /\ ~Inside(valid_t, Roots(sphere[1], ray[1])[1])
    /\ hit[1].t = Roots(sphere[1], ray[1])[2]
    /\ Lt(Roots(sphere[1], ray[1])[1], hit[1].t)

UnitAxes == {P3(1, 0, 0), P3(-1, 0, 0), P3(0, 1, 0), P3(0, -1, 0), P3(0, 0, 1), P3(0, 0, -1)}

\* The distance D from which the ray is fired at the origin: origin = -D * direction.
Distance(r) == FNeg(Dot(r.origin, r.direction))

\* A sphere centred at the origin, and a ray of unit direction along an axis
\* fired toward the centre from farther away than the radius.
FiredAtCentre(s, r) ==
    /\ s.center = P3(0, 0, 0)
    /\ r.direction \in UnitAxes
    /\ r.origin = VScale(FNeg(Distance(r)), r.direction)
    /\ Lt(s.radius, Distance(r))

\* C5: for such a sphere of radius R and ray from distance D, Sphere::hit_by
\* returns t = D - R when the interval contains D - R, and t = D + R when the
\* interval excludes D - R and contains D + R.
C5_AxisRayRoots ==
    (op.name = "sphere_hit_by" /\ FiredAtCentre(sphere[1], ray[1])) =>
        LET near == FSub(Distance(ray[1]), sphere[1].radius)
            far == FAdd(Distance(ray[1]), sphere[1].radius)
        IN  /\ Inside(valid_t, near) => hit # None /\ hit[1].t = near
            /\ (~Inside(valid_t, near) /\ Inside(valid_t, far)) =>
                   hit # None /\ hit[1].t = far

\* D = 3, R = 2: the near root 1 is outside [3, 8], the far root 5 is returned.
C5_Witness ==
    /\ op.name = "sphere_hit_by"
    /\ FiredAtCentre(sphere[1], ray[1])
    /\ Distance(ray[1]) = F(3)
    /\ sphere[1].radius = F(2)
    /\ valid_t = <<F(3), F(8)>>
    /\ hit # None
    /\ hit[1].t = F(5)

\* What the members of the list report for the ray and the interval.
Reports == {SphereHitBy(world[i], ray[1], valid_t) : i \in 1..Len(world)} \ {None}

\* C3: List::hit_by returns the hit with the smallest t among the hits its
\* members report in the interval, for every order of the members, and None
\* exactly when the list is empty or no member reports a hit.
C3_ListNearestHit ==
    op.name = "list_hit_by" =>
        /\ hit = None <=> Reports = {}
        /\ hit # None =>
               /\ hit \in Reports
               /\ \A h \in Reports : Le(hit[1].t, h[1].t)

\* The last member reports a hit farther than the one returned.
C3_Witness ==
    /\ op.name = "list_hit_by"
    /\ Len(world) >= 2
    /\ hit # None
    /\ SphereHitBy(world[Len(world)], ray[1], valid_t) # None
    /\ Lt(hit[1].t, SphereHitBy(world[Len(world)], ray[1], valid_t)[1].t)

-----------------------------------------------------------------------------
(* Claims about ray_color *)

\* The nested calls: at most top + 1 of them, each with the depth of its caller less 1.
ChainBounded ==
    /\ Len(stack) <= top + 1
    /\ rcalls <= top + 1
    /\ hcalls <= top
    /\ scalls <= top
    /\ \A i \in 1..Len(stack) : stack[i].max_depth = top - (i - 1)

\* A call with max_depth = 0 returns black and calls neither the world nor a material.
ExhaustedStep ==
    (Running /\ TopFrame.max_depth = 0) =>
        /\ ret' = Some([r |-> F(0), g |-> F(0), b |-> F(0)])
        /\ hcalls' = hcalls
        /\ scalls' = scalls
        /\ rcalls' = rcalls

\* C1: ray_color terminates: the chain of nested calls is at most max_depth + 1
\* long, the depth going down by 1 with each recursion, and a call with
\* max_depth = 0 returns black without calling world.hit_by or a material.
C1_RayColorTerminates ==
    /\ []ChainBounded
    /\ [][ExhaustedStep]_vars
    /\ (stack # <<>>) ~> (stack = <<>> /\ ret # None)

\* The recursion reached depth 0 below two scatterings or more.
C1_Witness ==
    /\ ev = "exhausted"
    /\ top >= 2
    /\ rcalls = top + 1
    /\ Len(stack) = top
    /\ ret = Some([r |-> F(0), g |-> F(0), b |-> F(0)])

\* The channel-wise product of two colours.
Product(c, d) == [r |-> FMul(c.r, d.r), g |-> FMul(c.g, d.g), b |-> FMul(c.b, d.b)]

\* A call with max_depth > 0 whose world reports a hit returns ...
HitStep ==
    \* ... the result of ray_color at max_depth - 1, times the attenuation,
    /\ ev' = "attenuated" =>
           /\ ret # None
           /\ TopFrame.max_depth > 0
           /\ rdepth = TopFrame.max_depth - 1
           /\ ret' = Some(Product(ret[1], TopFrame.attenuation))
    \* ... and black when the material scatters nothing.
    /\ ev' = "absorbed" =>
           /\ TopFrame.max_depth > 0
           /\ ret' = Some([r |-> F(0), g |-> F(0), b |-> F(0)])

\* C2: with max_depth > 0 and a hit, ray_color returns the recursive result for
\* the outgoing ray at max_depth - 1 multiplied channel-wise by the attenuation
\* when the material scatters, and black when it does not.
C2_HitAttenuatesRecursion == [][HitStep]_vars

\* White sky seen through one scattering of albedo (0.8, 0.6, 0.2).
C2_Witness ==
    /\ ev = "attenuated"
    /\ stack = <<>>
    /\ ret = Some([r |-> <<4, 5>>, g |-> <<3, 5>>, b |-> <<1, 5>>])

-----------------------------------------------------------------------------
(* Materials *)

FAbs(x) == IF x[1] < 0 THEN FNeg(x) ELSE x

\* -v
VNeg(v) == VScale(F(-1), v)

\* Vec3::length
Length(v) == Sqrt(LengthSquared(v))

\* Vec3::normalized: *self /= self.length()
Normalized(v) == VDiv(v, Length(v))

\* Vec3::random_unit_vector, for the draw v of random_in_unit_sphere.
RandomUnitVector(v) == Normalized(v)

\* Vec3::reflect_about: the mirror image of v in the plane with normal n.
ReflectAbout(v, n) == VSub(v, VScale(FMul(F(2), Dot(v, n)), n))

NearZeroEps == <<1, 100000000>>

\* Vec3::near_zero: every component is numerically zero.
NearZero(v) == \A i \in 1..3 : Lt(FAbs(v[i]), NearZeroEps)

\* The part of the refracted direction along the normal, squared (Snell's law).
RefractedParallelSquared(v, n, eta_from, eta_to) ==
    LET uv == Normalized(v)
        cos_theta == FAbs(Dot(uv, n))
        nf == IF Lt(Dot(uv, n), F(0)) THEN n ELSE VNeg(n)
        perp == VScale(FDiv(eta_from, eta_to), VAdd(uv, VScale(cos_theta, nf)))
    IN  FAbs(FSub(F(1), LengthSquared(perp)))

\* Vec3::refract: the direction of v after it crosses the surface with normal n
\* from a medium of index eta_from into one of index eta_to.
Refract(v, n, eta_from, eta_to) ==
    LET uv == Normalized(v)
        cos_theta == FAbs(Dot(uv, n))
        nf == IF Lt(Dot(uv, n), F(0)) THEN n ELSE VNeg(n)
        perp == VScale(FDiv(eta_from, eta_to), VAdd(uv, VScale(cos_theta, nf)))
        parallel == VScale(FNeg(Sqrt(RefractedParallelSquared(v, n, eta_from, eta_to))), nf)
    IN  VAdd(perp, parallel)

ScatterRecord(attenuation, direction) ==
    [attenuation |-> attenuation, direction |-> direction]

\* Lambertian::new
LambertianNew(albedo) == [albedo |-> albedo]

\* Dielectric::new
DielectricNew(albedo, refractive_index) ==
    [albedo |-> albedo, refractive_index |-> refractive_index]

\* Lambertian::scatter that absorbs the ray when the direction cancels out.
LambertianScatterAbsorbing(m, r, hit_record, rnd) ==
    LET scatter_direction ==
            VAdd(RandomUnitVector(rnd),
                 IF Lt(Dot(hit_record.normal, r.direction), F(0))
                 THEN hit_record.normal ELSE VNeg(hit_record.normal))
    IN  IF NearZero(scatter_direction) THEN None
        ELSE Some(ScatterRecord(m.albedo, RayNew(hit_record.p, scatter_direction)))

\* <Lambertian as Material>::scatter; rnd is the draw of random_in_unit_sphere.
LambertianScatter(m, r, hit_record, rnd) ==
    LET sum == VAdd(RandomUnitVector(rnd),
                    IF Lt(Dot(hit_record.normal, r.direction), F(0))
                    THEN hit_record.normal ELSE VNeg(hit_record.normal))
        scatter_direction == IF NearZero(sum) THEN hit_record.normal ELSE sum
    IN  Some(ScatterRecord(m.albedo, RayNew(hit_record.p, scatter_direction)))

\* The direction Metal::scatter gives the outgoing ray.
MetalDirection(m, r, hit_record, rnd) ==
    LET reflected == ReflectAbout(Normalized(r.direction), hit_record.normal)
    IN  VAdd(reflected, VScale(m.fuzziness, rnd))

\* Metal::scatter filtering on the hit normal as it is recorded.
MetalScatterUnsigned(m, r, hit_record, rnd) ==
    LET rec == ScatterRecord(m.albedo,
                             RayNew(hit_record.p, MetalDirection(m, r, hit_record, rnd)))
    IN  IF Lt(F(0), Dot(rec.direction.direction, hit_record.normal))
        THEN Some(rec) ELSE None

\* <Metal as Material>::scatter; rnd is the draw of random_in_unit_sphere.
MetalScatter(m, r, hit_record, rnd) ==
    LET rec == ScatterRecord(m.albedo,
                             RayNew(hit_record.p, MetalDirection(m, r, hit_record, rnd)))
        facing == VScale(FNeg(Signum(Dot(hit_record.normal, r.direction))),
                         hit_record.normal)
    IN  IF Lt(F(0), Dot(rec.direction.direction, facing)) THEN Some(rec) ELSE None

RECURSIVE Powi(_, _)
\* f64::powi for a non-negative exponent.
Powi(x, n) == IF n = 0 THEN F(1) ELSE FMul(x, Powi(x, n - 1))

\* The indices on the two sides of the surface, the side the ray comes from first.
EtaPair(m, cos_theta) ==
    IF Lt(cos_theta, F(0)) THEN <<F(1), m.refractive_index>>
                           ELSE <<m.refractive_index, F(1)>>

\* The test of total internal reflection with the bound included.
CannotRefractInclusive(eta_from, eta_to, cos_theta) ==
    Le(F(1), FMul(FDiv(eta_from, eta_to),
                  Sqrt(FSub(F(1), FMul(cos_theta, cos_theta)))))

\* cannot_refract of Dielectric::scatter
CannotRefract(eta_from, eta_to, cos_theta) ==
    Lt(F(1), FMul(FDiv(eta_from, eta_to),
                  Sqrt(FSub(F(1), FMul(cos_theta, cos_theta)))))

\* r0 of Dielectric::reflectance
SchlickR0(refraction_ratio) ==
    Powi(FDiv(FSub(F(1), refraction_ratio), FAdd(F(1), refraction_ratio)), 2)

\* Dielectric::reflectance
Reflectance(cos_theta, refraction_ratio) ==
    LET r0 == SchlickR0(refraction_ratio)
    IN  FAdd(r0, FMul(FSub(F(1), r0), Powi(FSub(F(1), cos_theta), 5)))

\* The locals of Dielectric::scatter and the branch of its `if`.
DielectricLocals(m, r, hit_record, draw) ==
    LET unit_direction == Normalized(r.direction)
        cos_theta == Dot(unit_direction, hit_record.normal)
        eta == EtaPair(m, cos_theta)
        cannot_refract == CannotRefract(eta[1], eta[2], cos_theta)
        reflectance == Reflectance(cos_theta, FDiv(eta[1], eta[2]))
    IN  [eta_from |-> eta[1], eta_to |-> eta[2],
         r0 |-> SchlickR0(FDiv(eta[1], eta[2])),
         reflectance |-> reflectance,
         cannot_refract |-> cannot_refract,
         branch |-> IF cannot_refract \/ Lt(draw, reflectance)
                    THEN "reflect" ELSE "refract"]

\* <Dielectric as Material>::scatter; draw is the value of rand::random().
DielectricScatter(m, r, hit_record, draw) ==
    LET l == DielectricLocals(m, r, hit_record, draw)
    IN  IF l.branch = "reflect"
        THEN Some(ScatterRecord(m.albedo,
                 RayNew(hit_record.p,
                        ReflectAbout(Normalized(r.direction), hit_record.normal))))
        ELSE Some(ScatterRecord(m.albedo,
                 RayNew(hit_record.p,
                        Refract(r.direction, hit_record.normal, l.eta_from, l.eta_to))))

-----------------------------------------------------------------------------
(* Scattering: inputs and operations *)

\* Directions of incoming rays: onto the surface from outside (head on, at two
\* angles, not normalized), along the surface, and from inside.
DirectionIn ==
    {P3(0, -1, 0), P3(3, -4, 0), P3(4, -3, 0), P3(0, -2, 0), P3(1, 0, 0),
     P3(0, 1, 0), P3(3, 4, 0), P3(4, 3, 0)}

\* Hits on the unit sphere at the origin: the normal is the outward one.
HitIn ==
    {[p |-> P3(0, 1, 0), normal |-> P3(0, 1, 0), t |-> F(1)],
     [p |-> P3(1, 0, 0), normal |-> P3(1, 0, 0), t |-> F(2)]}

\* Draws of random_in_unit_sphere: length_squared() < 1.
UnitSphereIn ==
    {P3(0, 0, 0), <<F(0), <<-4, 5>>, F(0)>>, <<F(0), <<-9, 10>>, F(0)>>,
     <<F(0), <<9, 10>>, F(0)>>, <<Half, F(0), F(0)>>, <<<<-1, 2>>, F(0), F(0)>>}

\* Draws of rand::random::<f64>(): in [0, 1).
DrawIn == {F(0), <<1, 50>>, Half, <<999, 1000>>}

FuzzinessIn == {F(0), Half, F(1)}

\* Refractive indices: the surrounding medium, water, the glass of main.rs.
RefractiveIndexIn == {F(1), <<4, 3>>, <<3, 2>>}

\* The origin of the incoming ray is of no consequence to scatter.
ScatterRayIn == {RayNew(P3(0, 0, 0), d) : d \in DirectionIn}

\* The square root Vec3::normalized takes of the direction is exact.
ExactDirection(r) == HasSqrt(LengthSquared(r.direction))

\* Every square root Dielectric::scatter can take is exact.
ExactDielectric(m, r, hit_record) ==
    /\ ExactDirection(r)
    /\ LET cos_theta == Dot(Normalized(r.direction), hit_record.normal)
           eta == EtaPair(m, cos_theta)
       IN  /\ HasSqrt(FSub(F(1), FMul(cos_theta, cos_theta)))
           /\ \/ CannotRefract(eta[1], eta[2], cos_theta)
              \/ HasSqrt(RefractedParallelSquared(r.direction, hit_record.normal,
                                                  eta[1], eta[2]))

\* What Material::scatter leaves alone.
notScatter == <<colorVars, mergeVars, geomVars, rayVars, angleVars, cameraVars, imageVars>>

\* One call of scatter is looked at in each behaviour: the method keeps no state.
ScatterCall(kind, m, r, hit_record, rnd, draw) ==
    [kind |-> kind, material |-> m, ray |-> r, hit_record |-> hit_record,
     rnd |-> rnd, draw |-> draw]

\* material.scatter(ray, hit_record) for a Lambertian
ScatterLambertian ==
    \E a \in AlbedoIn, r \in ScatterRayIn, h \in HitIn, rnd \in UnitSphereIn :
        /\ scat = NoScatter
        /\ HasSqrt(LengthSquared(rnd))
        /\ scat' = ScatterCall("lambertian", LambertianNew(a), r, h, rnd, NaN)
        /\ srec' = LambertianScatter(LambertianNew(a), r, h, rnd)
        /\ sdiel' = NoLocals
        /\ UNCHANGED notScatter

\* material.scatter(ray, hit_record) for a Metal
ScatterMetal ==
    \E a \in AlbedoIn, f \in FuzzinessIn, r \in ScatterRayIn, h \in HitIn,
       rnd \in UnitSphereIn :
        /\ scat = NoScatter
        /\ ExactDirection(r)
        /\ scat' = ScatterCall("metal", MetalNew(a, f), r, h, rnd, NaN)
        /\ srec' = MetalScatter(MetalNew(a, f), r, h, rnd)
        /\ sdiel' = NoLocals
        /\ UNCHANGED notScatter

\* material.scatter(ray, hit_record) for a Dielectric
ScatterDielectric ==
    \E a \in AlbedoIn, ri \in RefractiveIndexIn, r \in ScatterRayIn, h \in HitIn,
       draw \in DrawIn :
        /\ scat = NoScatter
        /\ ExactDielectric(DielectricNew(a, ri), r, h)
        /\ scat' = ScatterCall("dielectric", DielectricNew(a, ri), r, h, <<>>, draw)
        /\ srec' = DielectricScatter(DielectricNew(a, ri), r, h, draw)
        /\ sdiel' = DielectricLocals(DielectricNew(a, ri), r, h, draw)
        /\ UNCHANGED notScatter

InitScatterSpec ==
    /\ InitColor
    /\ saved = ColorDefault
    /\ InitMerge
    /\ InitGeom
    /\ InitRay
    /\ InitMore

NextScatter ==
    \/ ScatterLambertian
    \/ ScatterMetal
    \/ ScatterDielectric

SpecScatter == InitScatterSpec /\ [][NextScatter]_vars

-----------------------------------------------------------------------------
(* Angle *)

MaxAngleOps == 3

\* The operations are followed while the angle's numerator and denominator stay
\* below this magnitude.
MaxMagnitude == 1000

Small(x) == x[2] = 0 \/ (Abs(x[1]) <= MaxMagnitude /\ x[2] <= MaxMagnitude)

\* f64::to_degrees: the value times 180 / PI.
F64ToDegrees(x) == FMul(x, FDiv(F(180), PI))

\* f64::to_radians: the value times PI / 180.
F64ToRadians(x) == FMul(x, FDiv(PI, F(180)))

\* Angle::to_degrees converting whatever the unit is.
to_degrees_always(a) == Degrees(F64ToDegrees(a.value))

\* Angle::to_degrees
to_degrees(a) == IF a.unit = "degrees" THEN a ELSE Degrees(F64ToDegrees(a.value))

\* Angle::to_radians
to_radians(a) == IF a.unit = "degrees" THEN Radians(F64ToRadians(a.value)) ELSE a

\* Angle::unwrap_degrees: the value, or the panic of unreachable!().
unwrap_degrees(a) ==
    LET c == to_degrees(a)
    IN  IF c.unit = "degrees" THEN [panicked |-> FALSE, value |-> c.value]
        ELSE [panicked |-> TRUE, value |-> NaN]

\* Angle::unwrap_radians: the value, or the panic of unreachable!().
unwrap_radians(a) ==
    LET c == to_radians(a)
    IN  IF c.unit = "radians" THEN [panicked |-> FALSE, value |-> c.value]
        ELSE [panicked |-> TRUE, value |-> NaN]

\* <Angle as Neg>::neg
angle_neg(a) == [a EXCEPT !.value = FNeg(@)]

\* <Angle as Mul<f64>>::mul
angle_mul(a, rhs) == [a EXCEPT !.value = FMul(@, rhs)]

\* <Angle as Div<f64>>::div
angle_div(a, rhs) == [a EXCEPT !.value = FDiv(@, rhs)]

RECURSIVE add_to_degrees(_, _, _)
\* <Angle as Add>::add normalizing mixed units to degrees.
add_to_degrees(a, rhs, calls) ==
    IF a.unit = "degrees" /\ rhs.unit = "degrees"
    THEN <<Degrees(FAdd(a.value, rhs.value)), calls>>
    ELSE IF a.unit = "radians" /\ rhs.unit = "radians"
    THEN <<Radians(FAdd(a.value, rhs.value)), calls>>
    ELSE IF a.unit = "radians" THEN add_to_degrees(to_degrees(a), rhs, calls + 1)
    ELSE add_to_degrees(a, to_degrees(rhs), calls + 1)

RECURSIVE add(_, _, _)
\* <Angle as Add>::add: the sum, and the number of calls of add it took, this
\* one being call number `calls`.
add(a, rhs, calls) ==
    IF a.unit = "degrees" /\ rhs.unit = "degrees"
    THEN <<Degrees(FAdd(a.value, rhs.value)), calls>>
    ELSE IF a.unit = "radians" /\ rhs.unit = "radians"
    THEN <<Radians(FAdd(a.value, rhs.value)), calls>>
    ELSE IF a.unit = "degrees" THEN add(to_radians(a), rhs, calls + 1)
    ELSE add(a, to_radians(rhs), calls + 1)

\* <Angle as Sub>::sub: self + -rhs
sub(a, rhs, calls) == add(a, angle_neg(rhs), calls)

AngleValueIn == {F(0), F(1), F(180), F(-90), PI, NaN}

AngleIn == {Degrees(v) : v \in AngleValueIn} \cup {Radians(v) : v \in AngleValueIn}

AngleScalarIn == {F(0), F(-1), F(2), Half}

AngleCall(name, rhs, k, calls) == [name |-> name, rhs |-> rhs, k |-> k, calls |-> calls]

\* What the Angle operations leave alone.
notAngle == <<colorVars, mergeVars, geomVars, rayVars, scatterVars, cameraVars, imageVars>>

\* The bookkeeping common to every Angle operation.
AngleRecord(c) ==
    /\ anops < MaxAngleOps
    /\ anops' = anops + 1
    /\ aprev' = angle
    /\ acall' = c
    /\ UNCHANGED notAngle

\* Angle::Degrees(v), Angle::Radians(v)
NewAngle ==
    \E a \in AngleIn :
        /\ AngleRecord(AngleCall("new", a, NaN, 0))
        /\ angle' = a
        /\ UNCHANGED aout

ToDegrees ==
    /\ Small(angle.value)
    /\ AngleRecord(AngleCall("to_degrees", angle, NaN, 0))
    /\ angle' = to_degrees(angle)
    /\ UNCHANGED aout

ToRadians ==
    /\ Small(angle.value)
    /\ AngleRecord(AngleCall("to_radians", angle, NaN, 0))
    /\ angle' = to_radians(angle)
    /\ UNCHANGED aout

UnwrapDegrees ==
    /\ Small(angle.value)
    /\ AngleRecord(AngleCall("unwrap_degrees", angle, NaN, 0))
    /\ aout' = unwrap_degrees(angle)
    /\ UNCHANGED angle

UnwrapRadians ==
    /\ Small(angle.value)
    /\ AngleRecord(AngleCall("unwrap_radians", angle, NaN, 0))
    /\ aout' = unwrap_radians(angle)
    /\ UNCHANGED angle

\* angle + rhs, angle += rhs
AddAngle ==
    \E rhs \in AngleIn :
        /\ Small(angle.value)
        /\ AngleRecord(AngleCall("add", rhs, NaN, add(angle, rhs, 1)[2]))
        /\ angle' = add(angle, rhs, 1)[1]
        /\ UNCHANGED aout

\* angle - rhs, angle -= rhs
SubAngle ==
    \E rhs \in AngleIn :
        /\ Small(angle.value)
        /\ AngleRecord(AngleCall("sub", rhs, NaN, sub(angle, rhs, 1)[2]))
        /\ angle' = sub(angle, rhs, 1)[1]
        /\ UNCHANGED aout

\* angle * k, angle *= k
MulAngle ==
    \E k \in AngleScalarIn :
        /\ Small(angle.value)
        /\ AngleRecord(AngleCall("mul", angle, k, 0))
        /\ angle' = angle_mul(angle, k)
        /\ UNCHANGED aout

\* angle / k, angle /= k
DivAngle ==
    \E k \in AngleScalarIn :
        /\ Small(angle.value)
        /\ AngleRecord(AngleCall("div", angle, k, 0))
        /\ angle' = angle_div(angle, k)
        /\ UNCHANGED aout

\* -angle
NegAngle ==
    /\ AngleRecord(AngleCall("neg", angle, NaN, 0))
    /\ angle' = angle_neg(angle)
    /\ UNCHANGED aout

NextAngle ==
    \/ NewAngle
    \/ ToDegrees
    \/ ToRadians
    \/ UnwrapDegrees
    \/ UnwrapRadians
    \/ AddAngle
    \/ SubAngle
    \/ MulAngle
    \/ DivAngle
    \/ NegAngle

InitAngleSpec ==
    /\ InitColor
    /\ saved = ColorDefault
    /\ InitMerge
    /\ InitGeom
    /\ InitRay
    /\ InitMore

SpecAngle == InitAngleSpec /\ [][NextAngle]_vars

-----------------------------------------------------------------------------
(* Camera *)

\* f64::tan is followed on the angles whose tangent is rational.
HasTan(x) == IsNaN(x) \/ x \in {F(0), FDiv(PI, F(4)), FNeg(FDiv(PI, F(4)))}

\* f64::tan
Tan(x) ==
    IF IsNaN(x) THEN NaN
    ELSE IF x = F(0) THEN F(0)
    ELSE IF x = FDiv(PI, F(4)) THEN F(1)
    ELSE F(-1)

\* Angle::tan
angle_tan(a) == Tan(unwrap_radians(a).value)

\* Vec3::cross
Cross(a, rhs) ==
    <<FSub(FMul(a[2], rhs[3]), FMul(a[3], rhs[2])),
      FSub(FMul(a[3], rhs[1]), FMul(a[1], rhs[3])),
      FSub(FMul(a[1], rhs[2]), FMul(a[2], rhs[1]))>>

\* Vec3 == Vec3 (PartialEq)
VecEq(a, b) == Eq(a[1], b[1]) /\ Eq(a[2], b[2]) /\ Eq(a[3], b[3])

Orientation(origin, look_at, up) == [origin |-> origin, look_at |-> look_at, up |-> up]

Structure(vertical_fov, aspect_ratio, aperture_width, focus_distance) ==
    [vertical_fov |-> vertical_fov, aspect_ratio |-> aspect_ratio,
     aperture_width |-> aperture_width, focus_distance |-> focus_distance]

\* Camera::new
CameraNew(orientation, structure) ==
    LET h == angle_tan(angle_div(structure.vertical_fov, F(2)))
        viewport_height == FMul(F(2), h)
        viewport_width == FMul(structure.aspect_ratio, viewport_height)
        w == Normalized(VSub(orientation.origin, orientation.look_at))
        u == Normalized(Cross(orientation.up, w))
        v == Cross(w, u)
        origin == orientation.origin
        horizontal == VScale(FMul(structure.focus_distance, viewport_width), u)
        vertical == VScale(FMul(structure.focus_distance, viewport_height), v)
        lower_left_corner ==
            VSub(VSub(VSub(origin, VDiv(horizontal, F(2))), VDiv(vertical, F(2))),
                 VScale(structure.focus_distance, w))
    IN  [origin |-> origin, lower_left_corner |-> lower_left_corner,
         horizontal |-> horizontal, vertical |-> vertical,
         u |-> u, v |-> v, w |-> w,
         lens_radius |-> FDiv(structure.aperture_width, F(2))]

\* The offset of the ray's origin on the lens, for the draw `disk` of
\* Vec3::random_in_unit_disk.
LensOffset(c, disk) ==
    LET fuzzed == VScale(c.lens_radius, disk)
    IN  VAdd(VScale(fuzzed[1], c.u), VScale(fuzzed[2], c.v))

\* Camera::get_ray aiming from the moved origin without taking the offset back.
get_ray_uncompensated(c, u, v, disk) ==
    LET offset == LensOffset(c, disk)
    IN  RayNew(VAdd(c.origin, offset),
               VSub(VAdd(VAdd(c.lower_left_corner, VScale(u, c.horizontal)),
                         VScale(v, c.vertical)),
                    c.origin))

\* Camera::get_ray, for the draw `disk` of Vec3::random_in_unit_disk.
get_ray(c, u, v, disk) ==
    LET offset == LensOffset(c, disk)
    IN  RayNew(VAdd(c.origin, offset),
               VSub(VSub(VAdd(VAdd(c.lower_left_corner, VScale(u, c.horizontal)),
                              VScale(v, c.vertical)),
                         c.origin),
                    offset))

OrientationIn ==
    {Orientation(<<F(0), F(0), F(0)>>, <<F(0), F(0), F(-1)>>, <<F(0), F(1), F(0)>>),
     Orientation(<<F(0), F(0), F(0)>>, <<F(0), F(0), F(-1)>>, <<F(0), F(2), F(0)>>),
     Orientation(<<F(3), F(0), F(4)>>, <<F(0), F(0), F(0)>>, <<F(0), F(1), F(0)>>),
     Orientation(<<F(1), F(2), F(3)>>, <<F(1), F(2), F(3)>>, <<F(0), F(1), F(0)>>),
     Orientation(<<F(0), F(0), F(0)>>, <<F(0), F(0), F(-1)>>, <<F(0), F(0), F(1)>>)}

StructureIn ==
    {Structure(fov, aspect, aperture, focus) :
        fov \in {Degrees(F(90)), Radians(FDiv(PI, F(2))), Degrees(F(0))},
        aspect \in {F(1), F(2)},
        aperture \in {F(0), F(1)},
        focus \in {F(1), F(2)}}

ViewportIn == {F(0), Half, F(1)}

\* Draws of Vec3::random_in_unit_disk: z is 0 and the length is below 1.
UnitDiskIn ==
    {<<F(0), F(0), F(0)>>, <<Half, F(0), F(0)>>, <<F(0), FNeg(Half), F(0)>>,
     <<<<-3, 5>>, <<3, 5>>, F(0)>>}

\* The square roots of Camera::new are followed where they are rational.
ExactCamera(orientation, structure) ==
    LET d == VSub(orientation.origin, orientation.look_at)
    IN  /\ HasSqrt(LengthSquared(d))
        /\ HasSqrt(LengthSquared(Cross(orientation.up, Normalized(d))))
        /\ HasTan(unwrap_radians(angle_div(structure.vertical_fov, F(2))).value)

\* What the Camera leaves alone.
notCamera == <<colorVars, mergeVars, geomVars, rayVars, scatterVars, angleVars, imageVars>>

NewCamera ==
    /\ cam = None
    /\ \E orientation \in OrientationIn, structure \in StructureIn :
        /\ ExactCamera(orientation, structure)
        /\ cam' = Some(CameraNew(orientation, structure))
    /\ UNCHANGED <<cray, notCamera>>

GetRay ==
    /\ cam # None
    /\ \E u \in ViewportIn, v \in ViewportIn, disk \in UnitDiskIn :
        cray' = Some([u |-> u, v |-> v, disk |-> disk, ray |-> get_ray(cam[1], u, v, disk)])
    /\ UNCHANGED <<cam, notCamera>>

InitCameraSpec ==
    /\ InitColor
    /\ saved = ColorDefault
    /\ InitMerge
    /\ InitGeom
    /\ InitRay
    /\ InitMore

NextCamera ==
    \/ NewCamera
    \/ GetRay

SpecCamera == InitCameraSpec /\ [][NextCamera]_vars

-----------------------------------------------------------------------------
(* write_image *)

MaxWidth == 2

MaxHeight == 2

Line(tag, nums) == [tag |-> tag, nums |-> nums]

\* writeln!(out, "P3")
MagicLine == Line("P3", <<>>)

\* writeln!(out, "{width} {height}")
DimsLine(width, height) == Line("dims", <<width, height>>)

\* writeln!(out, "255")
MaxvalLine == Line("maxval", <<255>>)

\* writeln!(io::stderr().lock(), "Scanlines remaining: {j}")
RemainingLine(j) == Line("remaining", <<j>>)

\* writeln!(io::stderr().lock(), "Done")
DoneLine == Line("done", <<>>)

\* (0..height) in ascending order.
RowsForward(height) == [k \in 1..height |-> k - 1]

\* (0..height).rev(): the values of j in the order of the loop.
Rows(height) == [k \in 1..height |-> height - k]

RECURSIVE Reductions(_)
\* The results rayon's reduce can return for the mapped samples ps: the
\* sequence is split in two at any place, each half is reduced, and the two
\* results are combined, left operand first.
Reductions(ps) ==
    IF Len(ps) = 0 THEN {ReduceIdentity}
    ELSE IF Len(ps) = 1 THEN {ReduceOp(ReduceIdentity, ps[1])}
    ELSE UNION {{ReduceOp(a, b) : a \in Reductions(SubSeq(ps, 1, k)),
                                   b \in Reductions(SubSeq(ps, k + 1, Len(ps)))} :
                   k \in 1..(Len(ps) - 1)}

RECURSIVE Sequential(_)
\* The result of reduce when no split is made: a fold from the left.
Sequential(ps) ==
    IF Len(ps) = 0 THEN ReduceIdentity
    ELSE ReduceOp(Sequential(SubSeq(ps, 1, Len(ps) - 1)), ps[Len(ps)])

\* The colours Color::merge_samples can return for the samples ss.
MergeSamples(ss) == {MeanOf(p) : p \in Reductions([k \in 1..Len(ss) |-> MapSample(ss[k])])}

\* Color::merge_samples on a single thread.
MergeSequential(ss) == MeanOf(Sequential([k \in 1..Len(ss) |-> MapSample(ss[k])]))

\* The integer Display writes for the channel that Color::new stores for
\* x.sqrt(): 0 for NaN and for a negative x, 255 from 1 up, and below 1 the
\* largest n with n <= 255.999 * sqrt(x), which is the integer square root of
\* the integer part of 255.999^2 * x = 65535.488001 * x. The root itself need
\* not be rational.
GammaByte(x) ==
    IF IsNaN(x) \/ x[1] < 0 THEN 0
    ELSE IF x[2] = 0 \/ x[1] >= x[2] THEN 255
    ELSE LET y == (65535 * x[1] + (488001 * x[1]) \div 1000000) \div x[2]
         IN  CHOOSE n \in 0..255 : n * n <= y /\ y < (n + 1) * (n + 1)

\* The pixel line: Color::new(red.sqrt(), green.sqrt(), blue.sqrt()) through Display.
PixelLine(c) == Line("pixel", <<GammaByte(c.r), GammaByte(c.g), GammaByte(c.b)>>)

\* What ray_color returns for the samples of a pixel: no sample at all, one
\* white sample, three grey samples whose sum depends on the grouping, and a
\* sample with a NaN channel.
PixelSamplesIn ==
    {<<>>,
     <<ColorNew(F(1), F(1), F(1))>>,
     <<ColorNew(F(1), F(1), F(1)), ColorNew(Eighth, Eighth, Eighth), ColorNew(Eighth, Eighth, Eighth)>>,
     <<ColorNew(NaN, F(0), Half), ColorNew(F(1), F(1), Half)>>}

\* Draws of rand::random::<f64>(), which are in [0, 1).
JitterIn == {F(0), Half, <<999, 1000>>}

\* (i as f64 + rand::random::<f64>()) / (width - 1) as f64, and the same for j
\* and height; the loops run only for a size of at least 1, so the u32
\* subtraction does not wrap.
ViewportCoordinate(index, jitter, size) == FDiv(FAdd(F(index), jitter), F(size - 1))

\* What write_image leaves alone.
notImage == <<colorVars, mergeVars, geomVars, rayVars, scatterVars, angleVars, cameraVars>>

\* `?` on a failed write: write_image returns the error.
ReturnErr(sink) ==
    /\ ipc' = "returned"
    /\ iret' = "err"
    /\ ifail' = sink

\* The loop `for j in (0..height).rev()` goes to its k-th scanline, or ends.
ToScanline(k) ==
    IF k <= idim[2] THEN ipc' = "scanline" /\ ipos' = <<k, 0>>
    ELSE ipc' = "done" /\ ipos' = ipos

\* The loop `for i in 0..width` goes to column i of the k-th scanline, or ends.
ToPixel(k, i) ==
    IF i < idim[1] THEN ipc' = "pixel" /\ ipos' = <<k, i>>
    ELSE ToScanline(k + 1)

\* write_image(out, width, height, samples_per_pixel, camera, world, max_depth)
StartImage ==
    /\ ipc = "idle"
    /\ \E width \in 0..MaxWidth, height \in 0..MaxHeight, ss \in PixelSamplesIn :
        /\ idim' = <<width, height>>
        /\ isamples' = ss
    /\ ipc' = "magic"
    /\ UNCHANGED <<ipos, out, twin, errout, iret, order, rowwrites, attempts, ifail, iuv, notImage>>

\* writeln!(out, "P3")?
WriteMagic ==
    /\ ipc = "magic"
    /\ attempts' = attempts + 1
    /\ \E ok \in BOOLEAN :
        IF ok
        THEN /\ out' = Append(out, MagicLine)
             /\ twin' = Append(twin, MagicLine)
             /\ ipc' = "dims"
             /\ UNCHANGED <<iret, ifail>>
        ELSE ReturnErr("out") /\ UNCHANGED <<out, twin>>
    /\ UNCHANGED <<idim, isamples, ipos, errout, order, rowwrites, iuv, notImage>>

\* writeln!(out, "{width} {height}")?
WriteDims ==
    /\ ipc = "dims"
    /\ attempts' = attempts + 1
    /\ \E ok \in BOOLEAN :
        IF ok
        THEN /\ out' = Append(out, DimsLine(idim[1], idim[2]))
             /\ twin' = Append(twin, DimsLine(idim[1], idim[2]))
             /\ ipc' = "maxval"
             /\ UNCHANGED <<iret, ifail>>
        ELSE ReturnErr("out") /\ UNCHANGED <<out, twin>>
    /\ UNCHANGED <<idim, isamples, ipos, errout, order, rowwrites, iuv, notImage>>

\* writeln!(out, "255")?, and the entry of the loop over the scanlines
WriteMaxval ==
    /\ ipc = "maxval"
    /\ attempts' = attempts + 1
    /\ \E ok \in BOOLEAN :
        IF ok
        THEN /\ out' = Append(out, MaxvalLine)
             /\ twin' = Append(twin, MaxvalLine)
             /\ ToScanline(1)
             /\ UNCHANGED <<iret, ifail>>
        ELSE ReturnErr("out") /\ UNCHANGED <<out, twin, ipos>>
    /\ UNCHANGED <<idim, isamples, errout, order, rowwrites, iuv, notImage>>

\* writeln!(io::stderr().lock(), "Scanlines remaining: {j}")?, and the entry of
\* the loop over the columns
Scanline ==
    /\ ipc = "scanline"
    /\ attempts' = attempts + 1
    /\ \E ok \in BOOLEAN :
        IF ok
        THEN /\ errout' = Append(errout, RemainingLine(Rows(idim[2])[ipos[1]]))
             /\ rowwrites' = 0
             /\ ToPixel(ipos[1], 0)
             /\ UNCHANGED <<iret, ifail>>
        ELSE ReturnErr("stderr") /\ UNCHANGED <<errout, rowwrites, ipos>>
    /\ UNCHANGED <<idim, isamples, out, twin, order, iuv, notImage>>

\* One pass of the inner loop: the samples are merged, the colour is
\* gamma-corrected, and writeln!(out, "{color}")? writes it.
Pixel ==
    /\ ipc = "pixel"
    /\ order' = Append(order, <<Rows(idim[2])[ipos[1]], ipos[2]>>)
    /\ attempts' = attempts + 1
    /\ rowwrites' = rowwrites + 1
    /\ \E ju \in JitterIn, jv \in JitterIn :
        iuv' = Some(<<ViewportCoordinate(ipos[2], ju, idim[1]),
                      ViewportCoordinate(Rows(idim[2])[ipos[1]], jv, idim[2])>>)
    /\ \E c \in MergeSamples(isamples), ok \in BOOLEAN :
        IF ok
        THEN /\ out' = Append(out, PixelLine(c))
             /\ twin' = Append(twin, PixelLine(MergeSequential(isamples)))
             /\ ToPixel(ipos[1], ipos[2] + 1)
             /\ UNCHANGED <<iret, ifail>>
        ELSE ReturnErr("out") /\ UNCHANGED <<out, twin, ipos>>
    /\ UNCHANGED <<idim, isamples, errout, notImage>>

\* writeln!(io::stderr().lock(), "Done")?; Ok(())
Done ==
    /\ ipc = "done"
    /\ attempts' = attempts + 1
    /\ \E ok \in BOOLEAN :
        IF ok
        THEN /\ errout' = Append(errout, DoneLine)
             /\ ipc' = "returned"
             /\ iret' = "ok"
             /\ UNCHANGED ifail
        ELSE ReturnErr("stderr") /\ UNCHANGED errout
    /\ UNCHANGED <<idim, isamples, ipos, out, twin, order, rowwrites, iuv, notImage>>

InitImageSpec ==
    /\ InitColor
    /\ saved = ColorDefault
    /\ InitMerge
    /\ InitGeom
    /\ InitRay
    /\ InitMore

NextImage ==
    \/ StartImage
    \/ WriteMagic
    \/ WriteDims
    \/ WriteMaxval
    \/ Scanline
    \/ Pixel
    \/ Done

SpecImage == InitImageSpec /\ [][NextImage]_vars

-----------------------------------------------------------------------------
(* Claims about materials *)

\* The reflection of the normalized incoming direction about the hit normal,
\* plus fuzziness times the random vector.
Perturbed == MetalDirection(scat.material, scat.ray, scat.hit_record, scat.rnd)

\* The record Metal::scatter returns when it returns one.
MetalRecord == Some(ScatterRecord(scat.material.albedo, RayNew(scat.hit_record.p, Perturbed)))

\* The hit normal turned to face the incoming ray.
FacingNormal ==
    IF Lt(Dot(scat.hit_record.normal, scat.ray.direction), F(0))
    THEN scat.hit_record.normal ELSE VNeg(scat.hit_record.normal)

\* C11 as stated: Metal::scatter returns nothing exactly when the perturbed
\* reflected direction has dot product <= 0 with the outward normal of the hit,
\* and otherwise a record with the albedo and a ray from the hit point in that
\* direction.
C11_MetalRejectsOutwardNormal ==
    scat.kind = "metal" =>
        IF Le(Dot(Perturbed, scat.hit_record.normal), F(0))
        THEN srec = None ELSE srec = MetalRecord

\* C11 amended: Metal::scatter returns nothing exactly when the perturbed
\* reflected direction has dot product <= 0 with the hit normal turned to face
\* the incoming ray (the recorded normal when dot(normal, direction) < 0, its
\* negation otherwise), and otherwise a record with the albedo and a ray from
\* the hit point in that direction.
C11_MetalRejectsFacingNormal ==
    scat.kind = "metal" =>
        IF Le(Dot(Perturbed, FacingNormal), F(0))
        THEN srec = None ELSE srec = MetalRecord

\* A ray that hits the surface from inside is scattered back inside.
C11_Witness ==
    /\ scat.kind = "metal"
    /\ Lt(F(0), Dot(scat.hit_record.normal, scat.ray.direction))
    /\ srec # None
    /\ Lt(Dot(srec[1].direction.direction, scat.hit_record.normal), F(0))

\* C12: Lambertian::scatter returns a record for every ray and hit; its
\* attenuation is the albedo and its ray starts at the hit point p.
C12_LambertianAlwaysScatters ==
    scat.kind = "lambertian" =>
        /\ srec # None
        /\ srec[1].attenuation = scat.material.albedo
        /\ srec[1].direction.origin = scat.hit_record.p

\* The random unit vector cancels the normal: the ray leaves along the normal.
C12_Witness ==
    /\ scat.kind = "lambertian"
    /\ scat.ray.direction = P3(0, -1, 0)
    /\ scat.hit_record.normal = P3(0, 1, 0)
    /\ RandomUnitVector(scat.rnd) = P3(0, -1, 0)
    /\ srec # None
    /\ srec[1].direction = RayNew(scat.hit_record.p, scat.hit_record.normal)

\* Schlick's approximation of the reflectance for the cosine of the angle of
\* incidence and the ratio of the indices.
Schlick(cos_incidence, ratio) ==
    LET r0 == FMul(FDiv(FSub(F(1), ratio), FAdd(F(1), ratio)),
                   FDiv(FSub(F(1), ratio), FAdd(F(1), ratio)))
        k == FSub(F(1), cos_incidence)
    IN  FAdd(r0, FMul(FSub(F(1), r0), FMul(k, FMul(k, FMul(k, FMul(k, k))))))

\* What the claim has Dielectric::scatter do, the signed cosine c given.
ExpectedDielectric(c) ==
    LET entering == Lt(Dot(scat.ray.direction, scat.hit_record.normal), F(0))
        eta_from == IF entering THEN F(1) ELSE scat.material.refractive_index
        eta_to == IF entering THEN scat.material.refractive_index ELSE F(1)
        sin_theta == Sqrt(FSub(F(1), FMul(c, c)))
        must_reflect == Lt(F(1), FMul(FDiv(eta_from, eta_to), sin_theta))
    IN  [eta_from |-> eta_from, eta_to |-> eta_to,
         branch |-> IF must_reflect \/ Lt(scat.draw, Schlick(FAbs(c), FDiv(eta_from, eta_to)))
                    THEN "reflect" ELSE "refract"]

\* C13: Dielectric::scatter takes (eta_from, eta_to) = (1.0, refractive_index)
\* when dot(direction, normal) < 0 and (refractive_index, 1.0) otherwise, reflects
\* whenever eta_from / eta_to * sin(theta) > 1, otherwise reflects if the draw is
\* less than the Schlick reflectance and refracts if not; it always returns a
\* record whose ray starts at the hit point.
C13_DielectricReflectsOrRefracts ==
    scat.kind = "dielectric" =>
        LET u == Normalized(scat.ray.direction)
            n == scat.hit_record.normal
            e == ExpectedDielectric(Dot(u, n))
        IN  /\ sdiel.eta_from = e.eta_from
            /\ sdiel.eta_to = e.eta_to
            /\ sdiel.branch = e.branch
            /\ srec # None
            /\ srec[1].direction.origin = scat.hit_record.p
            /\ srec[1].direction.direction =
                   (IF e.branch = "reflect" THEN ReflectAbout(u, n)
                    ELSE Refract(scat.ray.direction, n, e.eta_from, e.eta_to))

\* The index of the medium is that of its surroundings.
IndexMatched == scat.kind = "dielectric" /\ scat.material.refractive_index = F(1)

\* The reflectance Dielectric::scatter computes for the ray r at the same hit.
ReflectanceAt(r) ==
    DielectricLocals(scat.material, r, scat.hit_record, scat.draw).reflectance

\* C14 as stated: a Dielectric with refractive_index = 1.0 never has total
\* internal reflection, and its reflectance is the same at every angle of
\* incidence (r0 = 0).
C14_IndexMatchedAngleFree ==
    IndexMatched =>
        /\ ~sdiel.cannot_refract
        /\ sdiel.r0 = F(0)
        /\ \A r \in ScatterRayIn :
               ExactDielectric(scat.material, r, scat.hit_record) =>
                   ReflectanceAt(r) = sdiel.reflectance

\* C14 amended: a Dielectric with refractive_index = 1.0 never has total
\* internal reflection, on either side of the surface, and the term r0 of its
\* reflectance, the one that does not depend on the angle, is 0.
C14_IndexMatchedNeverTotal ==
    IndexMatched =>
        /\ ~sdiel.cannot_refract
        /\ sdiel.eta_from = F(1)
        /\ sdiel.eta_to = F(1)
        /\ sdiel.r0 = F(0)

\* A ray along the surface: eta_from / eta_to * sin(theta) is exactly 1.
C14_Witness ==
    /\ IndexMatched
    /\ Dot(scat.ray.direction, scat.hit_record.normal) = F(0)
    /\ ~sdiel.cannot_refract
    /\ sdiel.r0 = F(0)

-----------------------------------------------------------------------------
(* Claims about angles *)

\* C15: to_degrees returns a Degrees angle unchanged and to_radians a Radians
\* angle unchanged, converting again changes nothing, to_degrees always yields
\* Degrees and to_radians Radians, and neither unwrap reaches its unreachable
\* branch.
C15_ConversionsTotalAndIdempotent ==
    /\ acall.name = "to_degrees" =>
        /\ angle.unit = "degrees"
        /\ (aprev.unit = "degrees" => angle = aprev)
        /\ to_degrees(angle) = angle
    /\ acall.name = "to_radians" =>
        /\ angle.unit = "radians"
        /\ (aprev.unit = "radians" => angle = aprev)
        /\ to_radians(angle) = angle
    /\ acall.name \in {"unwrap_degrees", "unwrap_radians"} => ~aout.panicked

\* Half a turn in radians was converted to degrees and unwrapped.
C15_Witness ==
    /\ acall.name = "unwrap_degrees"
    /\ aprev = Degrees(F(180))
    /\ aout = [panicked |-> FALSE, value |-> F(180)]
    /\ anops = 3

\* The operand of the last addition or subtraction, as it was added.
Addend == IF acall.name = "sub" THEN angle_neg(acall.rhs) ELSE acall.rhs

\* C16: an addition or a subtraction of two angles ends after at most one
\* nested addition; operands of one unit give that unit, operands of two units
\* are both taken to radians and give Radians; a product or a quotient by a
\* scalar and a negation keep the unit.
C16_ArithmeticUnits ==
    /\ acall.name \in {"add", "sub"} =>
        /\ acall.calls \in {1, 2}
        /\ aprev.unit = acall.rhs.unit =>
            /\ acall.calls = 1
            /\ angle.unit = aprev.unit
            /\ angle.value = FAdd(aprev.value, Addend.value)
        /\ aprev.unit # acall.rhs.unit =>
            /\ angle.unit = "radians"
            /\ angle.value = FAdd(to_radians(aprev).value, to_radians(Addend).value)
    /\ acall.name \in {"mul", "div", "neg"} => angle.unit = aprev.unit

\* A right angle in degrees was subtracted from half a turn in radians.
C16_Witness ==
    /\ acall.name = "sub"
    /\ aprev = Radians(PI)
    /\ acall.rhs = Degrees(F(-90))
    /\ acall.calls = 2
    /\ angle = Radians(FMul(PI, <<3, 2>>))

-----------------------------------------------------------------------------
(* Claims about the camera *)

\* The point of the focal plane that get_ray(s, t) aims at.
FocalPoint ==
    VAdd(VAdd(cam[1].lower_left_corner, VScale(cray[1].u, cam[1].horizontal)),
         VScale(cray[1].v, cam[1].vertical))

\* The ray starts at the camera's origin moved by the lens offset, is at the
\* focal point at parameter 1, and starts at the camera's origin itself when
\* the aperture is closed.
RayThroughFocalPoint ==
    /\ VecEq(cray[1].ray.origin, VAdd(cam[1].origin, LensOffset(cam[1], cray[1].disk)))
    /\ VecEq(At(cray[1].ray, F(1)), FocalPoint)
    /\ cam[1].lens_radius = F(0) => VecEq(cray[1].ray.origin, cam[1].origin)

\* The camera's basis (u, v, w) has no NaN or infinite component: the origin
\* differs from look_at and up is not parallel to the viewing direction.
FiniteBasis ==
    \A b \in {cam[1].u, cam[1].v, cam[1].w} : \A k \in 1..3 : IsFinite(b[k])

\* C17: for every camera, every (s, t) and every lens sample, the ray of
\* get_ray starts at origin + lens offset, is at parameter 1 at
\* lower_left_corner + s*horizontal + t*vertical whatever the offset, and starts
\* at the origin itself when aperture_width is 0.
C17_EveryCameraAimsAtFocalPoint == cray # None => RayThroughFocalPoint

\* C17, amended: the same for every camera whose basis is finite.
C17_FiniteCameraAimsAtFocalPoint == (cray # None /\ FiniteBasis) => RayThroughFocalPoint

\* A camera away from the axes with an open aperture sent a ray from a lens
\* point off its origin to a corner of the viewport.
C17_Witness ==
    /\ cray # None
    /\ FiniteBasis
    /\ cam[1].origin = <<F(3), F(0), F(4)>>
    /\ cam[1].lens_radius = Half
    /\ cray[1].disk = <<<<-3, 5>>, <<3, 5>>, F(0)>>
    /\ cray[1].u = F(1)
    /\ cray[1].v = F(1)
    /\ ~VecEq(cray[1].ray.origin, cam[1].origin)
    /\ VecEq(At(cray[1].ray, F(1)), FocalPoint)

-----------------------------------------------------------------------------
(* Claims about write_image *)

\* The pixels of a width x height image, top row first, left to right.
RowMajor(width, height) ==
    [n \in 1..(width * height) |-> <<height - 1 - ((n - 1) \div width), (n - 1) % width>>]

\* A line of three integers in 0..255 that is the line of the merged samples.
IsPixelLine(l) ==
    /\ l.tag = "pixel"
    /\ Len(l.nums) = 3
    /\ \A k \in 1..3 : l.nums[k] \in 0..255
    /\ l \in {PixelLine(c) : c \in MergeSamples(isamples)}

\* C18: a write_image that returns Ok has written P3, then width and height,
\* then 255, then width*height pixel lines, computed row by row from j =
\* height-1 down to 0 and in each row from i = 0 to width-1, each of three
\* integers in 0..255.
C18_HeaderThenPixelsRowMajor ==
    iret = "ok" =>
        /\ Len(out) = 3 + idim[1] * idim[2]
        /\ SubSeq(out, 1, 3) = <<MagicLine, DimsLine(idim[1], idim[2]), MaxvalLine>>
        /\ order = RowMajor(idim[1], idim[2])
        /\ \A n \in 4..Len(out) : IsPixelLine(out[n])

\* A 2 x 2 image whose samples have a NaN channel was written in full.
C18_Witness ==
    /\ iret = "ok"
    /\ idim = <<2, 2>>
    /\ Len(out) = 7
    /\ order = <<<<1, 0>>, <<1, 1>>, <<0, 0>>, <<0, 1>>>>
    /\ out[7] = Line("pixel", <<0, 181, 181>>)
    /\ errout = <<RemainingLine(1), RemainingLine(0), DoneLine>>

\* Every write before the failed one succeeded, the failed one was attempted
\* once, nothing was written or computed after it, and write_image returned.
FailedFast ==
    /\ ipc = "returned"
    /\ attempts = Len(out) + Len(errout) + 1
    /\ Len(order) <= Cardinality({n \in 1..Len(out) : out[n].tag = "pixel"}) + 1

\* C19: the driver writes to the output sink once per scanline, and when a
\* write fails write_image returns the error at once, with no further write, no
\* further pixel and no second attempt.
C19_OncePerScanlineFailFast ==
    /\ rowwrites <= 1
    /\ iret = "err" => FailedFast

\* C20: two runs of write_image on the same scene, camera, sizes and random
\* sequence write the same bytes whatever the scheduling of the reductions.
C20_TwoRunsSameBytes == out = twin

-----------------------------------------------------------------------------
(* Claims about the reflectance *)

\* The ray of the last call of scatter goes into the medium.
Entering == Lt(Dot(scat.ray.direction, scat.hit_record.normal), F(0))

\* C23: the reflectance Dielectric::scatter compares with the draw is in
\* [0, 1], and a ray that enters the medium without total internal reflection
\* is refracted for at least one draw of [0, 1).
C23_ReflectanceIsProbability ==
    scat.kind = "dielectric" =>
        /\ Le(F(0), sdiel.reflectance)
        /\ Le(sdiel.reflectance, F(1))
        /\ (Entering /\ ~sdiel.cannot_refract) =>
               \E draw \in DrawIn :
                   DielectricLocals(scat.material, scat.ray, scat.hit_record, draw).branch
                       = "refract"

-----------------------------------------------------------------------------
(* Claims about the progress report and the viewport coordinates *)

\* What a render of `height` scanlines reports on standard error.
ProgressLines(height) == [k \in 1..height |-> RemainingLine(height - k)] \o <<DoneLine>>

\* The progress line of the scanline being computed is the last one written,
\* and no pixel of a later scanline was computed before it.
ReportedBeforePixels ==
    /\ Len(errout) = ipos[1]
    /\ errout[Len(errout)] = RemainingLine(Rows(idim[2])[ipos[1]])
    /\ Len(order) = (ipos[1] - 1) * idim[1] + ipos[2]

\* C21: one progress line per scanline is written to standard error before
\* the pixels of the scanline, counting from height-1 down to 0, and Done once;
\* the output sink receives the same lines whether or not the progress writes
\* succeed, so a run none of whose writes to `out` failed has written the whole
\* image.
C21_ProgressIsSideChannel ==
    /\ iret = "ok" => errout = ProgressLines(idim[2])
    /\ ipc = "pixel" => ReportedBeforePixels
    /\ (ipc = "returned" /\ ifail # "out") => Len(out) = 3 + idim[1] * idim[2]

\* C22: the coordinates u = (i + jitter)/(width - 1) and v = (j + jitter)/
\* (height - 1) handed to Camera::get_ray are numbers of [0, 1], for every
\* pixel, every jitter of [0, 1) and every width and height of at least 1.
C22_ViewportCoordinatesInUnitSquare ==
    iuv # None =>
        \A k \in 1..2 :
            /\ IsFinite(iuv[1][k])
            /\ Le(F(0), iuv[1][k])
            /\ Le(iuv[1][k], F(1))

=============================================================================
